---- MODULE Spec2Model ----
(***************************************************************************)
(* The buffer manager of BadgerDB (buffer.cpp): the descriptor table, the  *)
(* frame pool, the hash table from (file, page) to frame, the clock hand,  *)
(* and the operations readPage, unPinPage, allocPage, disposePage and      *)
(* flushFile built on allocBuf, the clock replacement algorithm.           *)
(***************************************************************************)
EXTENDS Integers, Sequences, FiniteSets, TLC

\* ---------------------------------------------------------------- bounds
NumBufs == 2
NumFiles == 2
MaxPageNo == 2
MaxPin == 2
MaxData == 1

Frames == 0 .. (NumBufs - 1)
Files == 1 .. NumFiles
PageIds == 1 .. MaxPageNo
Data == 0 .. MaxData
\* file 1 holds every page number, the other files page 1 only
Pages == {q \in Files \X PageIds : q[1] = 1 \/ q[2] = 1}

\* the NULL file pointer and Page::INVALID_NUMBER of a cleared descriptor
NullFile == 0
InvalidPageNo == 0

VARIABLES
    bufDescTable,   \* frame -> descriptor
    bufPool,        \* frame -> Page held in the frame
    hashTable,      \* set of entries (file, pageNo) -> frameNo
    clockHand,      \* frame the clock hand points at
    filePages,      \* pages that exist in the files
    fileData,       \* content of each page on disk
    last,           \* the last operation called and how it ended
    log,            \* the calls the last operation made, in order
    pins,           \* page -> handles given out and not yet released
    mark,           \* page -> released with dirty = true while resident
    expect,         \* page -> content owed to the next readPage
    released        \* page -> content of its frame at the last dirty release

vars == <<bufDescTable, bufPool, hashTable, clockHand, filePages, fileData,
          last, log, pins, mark, expect, released>>

\* ------------------------------------------------------------ descriptors
ClearedDesc ==
    [file |-> NullFile, pageNo |-> InvalidPageNo, pinCnt |-> 0,
     dirty |-> FALSE, valid |-> FALSE, refbit |-> FALSE]

\* BufDesc::Clear
Clear(d) == ClearedDesc

\* BufDesc::Set
Set(d, f, p) ==
    [file |-> f, pageNo |-> p, pinCnt |-> 1,
     dirty |-> FALSE, valid |-> TRUE, refbit |-> TRUE]

EmptyPage == [pn |-> InvalidPageNo, data |-> 0]

\* ------------------------------------------------------------- hash table
HashEntry(f, p, fr) == [file |-> f, pageNo |-> p, frameNo |-> fr]

HashMatches(tbl, f, p) == {e \in tbl : e.file = f /\ e.pageNo = p}

\* BufHashTbl::lookup: found or HashNotFoundException
HashHit(tbl, f, p) == HashMatches(tbl, f, p) # {}

HashFrame(tbl, f, p) == (CHOOSE e \in HashMatches(tbl, f, p) : TRUE).frameNo

\* BufHashTbl::insert
HashInsert(tbl, f, p, fr) == tbl \cup {HashEntry(f, p, fr)}

\* BufHashTbl::remove
HashRemove(tbl, f, p) == tbl \ HashMatches(tbl, f, p)

\* ------------------------------------------------------------ call events
Ev(e, f, p, fr, x) == [ev |-> e, file |-> f, pageNo |-> p, frame |-> fr, val |-> x]

\* The engine and the files as one value the handlers thread through.
Machine ==
    [desc |-> bufDescTable, pool |-> bufPool, hash |-> hashTable,
     hand |-> clockHand, pages |-> filePages, data |-> fileData,
     log |-> <<>>, adv |-> 0]

\* File::writePage: the page is written under the number the Page carries
writePage(m, f, fr) ==
    LET pg == m.pool[fr]
        key == <<f, pg.pn>>
    IN [m EXCEPT
          !.data = IF key \in m.pages THEN [@ EXCEPT ![key] = pg.data] ELSE @,
          !.log = Append(@, Ev("write", f, pg.pn, fr, pg.data))]

\* ---------------------------------------------------------------- allocBuf
advanceClock(m) ==
    [m EXCEPT !.hand = (m.hand + 1) % NumBufs, !.adv = @ + 1]

\* the test of the pin count left out
IsPinnedNever(d) == FALSE

\* the test of the pin count off by one
IsPinnedTwice(d) == d.pinCnt > 1

\* buffer.cpp 103: a frame in use is passed over
IsPinned(d) == d.pinCnt > 0

\* the write back of the victim left out
WriteVictimNever(m) == m

\* buffer.cpp 107-109: a dirty victim is written back first
WriteVictim(m) ==
    IF m.desc[m.hand].dirty THEN writePage(m, m.desc[m.hand].file, m.hand) ELSE m

\* buffer.cpp 110-117: the victim leaves the hash table and is cleared; a
\* HashNotFoundException skips the Clear and is swallowed
RemoveVictim(m) ==
    LET h == m.hand
        d == m.desc[h]
    IN IF d.file = NullFile THEN m
       ELSE IF HashHit(m.hash, d.file, d.pageNo)
         THEN [m EXCEPT
                 !.hash = HashRemove(@, d.file, d.pageNo),
                 !.desc[h] = Clear(d),
                 !.log = @ \o <<Ev("remove", d.file, d.pageNo, h, 0),
                                Ev("clear", d.file, d.pageNo, h, 0)>>]
         ELSE [m EXCEPT !.log = Append(@, Ev("miss", d.file, d.pageNo, h, 0))]

\* the frame the hand is on is handed out
Choose(m) ==
    LET d == m.desc[m.hand]
    IN [m EXCEPT !.log = Append(@, Ev("victim", d.file, d.pageNo, m.hand, d.pinCnt))]

\* the reference bit not looked at: no second chance
VisitNoSecondChance(m0) ==
    LET m == advanceClock(m0)
        h == m.hand
        d == m.desc[h]
    IN IF ~d.valid THEN [m |-> Choose(m), found |-> TRUE]
       ELSE IF IsPinned(d) THEN [m |-> m, found |-> FALSE]
       ELSE [m |-> RemoveVictim(WriteVictim(Choose(m))), found |-> TRUE]

\* buffer.cpp 89-119: one turn of the for loop
Visit(m0) ==
    LET m == advanceClock(m0)
        h == m.hand
        d == m.desc[h]
    IN IF ~d.valid THEN [m |-> Choose(m), found |-> TRUE]
       ELSE IF d.refbit
         THEN [m |-> [m EXCEPT !.desc[h].refbit = FALSE], found |-> FALSE]
       ELSE IF IsPinned(d) THEN [m |-> m, found |-> FALSE]
       ELSE [m |-> RemoveVictim(WriteVictim(Choose(m))), found |-> TRUE]

RECURSIVE SweepShort(_, _)
\* the for loop stops one turn early
SweepShort(m, i) ==
    IF i >= NumBufs - 1 THEN [m |-> m, found |-> FALSE]
    ELSE LET r == Visit(m)
         IN IF r.found THEN r ELSE SweepShort(r.m, i + 1)

RECURSIVE SweepLong(_, _)
\* the for loop takes one turn too many
SweepLong(m, i) ==
    IF i = NumBufs + 1 THEN [m |-> m, found |-> FALSE]
    ELSE LET r == Visit(m)
         IN IF r.found THEN r ELSE SweepLong(r.m, i + 1)

RECURSIVE Sweep(_, _)
\* buffer.cpp 88-120: the for loop, numBufs turns unless a frame is found
Sweep(m, i) ==
    IF i = NumBufs THEN [m |-> m, found |-> FALSE]
    ELSE LET r == Visit(m)
         IN IF r.found THEN r ELSE Sweep(r.m, i + 1)

\* give up as soon as some frame is pinned
SomePinned(desc) == \E i \in Frames : desc[i].pinCnt # 0

\* buffer.cpp 123-132: give up when no frame has pin count 0
NoneUnpinned(desc) == \A i \in Frames : desc[i].pinCnt # 0

\* the call returns or throws: the turns of the clock it took
Done(m) ==
    [m EXCEPT !.log = Append(@, Ev("done", NullFile, InvalidPageNo, m.hand, m.adv))]

RECURSIVE allocBuf(_)
allocBuf(m) ==
    LET r == Sweep(m, 0)
    IN IF r.found THEN [m |-> Done(r.m), res |-> "ok", frame |-> r.m.hand]
       ELSE IF NoneUnpinned(r.m.desc)
         THEN [m |-> Done(r.m), res |-> "BufferExceeded", frame |-> r.m.hand]
       ELSE allocBuf(r.m)

\* -------------------------------------------------------------- handlers
\* buffer.cpp 152, 164: a hit adds a pin and sets the reference bit
PinHit(m, id) ==
    [m EXCEPT !.desc[id].pinCnt = @ + 1, !.desc[id].refbit = TRUE]

\* the frame keeps the content it had
LoadStale(m, f, p, id, pg) ==
    IF HashHit(m.hash, f, p)
    THEN [m |-> m, res |-> "HashAlreadyPresent"]
    ELSE [m |-> [m EXCEPT
                   !.hash = HashInsert(@, f, p, id),
                   !.desc[id] = [Set(@, f, p) EXCEPT !.refbit = TRUE],
                   !.log = Append(@, Ev("set", f, p, id, 0))],
          res |-> "ok"]

\* buffer.cpp 160-164: the page read from the file is put in the frame
Load(m, f, p, id, pg) ==
    LET m1 == [m EXCEPT !.pool[id] = pg]
    IN IF HashHit(m1.hash, f, p)
       THEN [m |-> m1, res |-> "HashAlreadyPresent"]
       ELSE [m |-> [m1 EXCEPT
                      !.hash = HashInsert(@, f, p, id),
                      !.desc[id] = [Set(@, f, p) EXCEPT !.refbit = TRUE],
                      !.log = Append(@, Ev("set", f, p, id, 0))],
             res |-> "ok"]

\* buffer.cpp 146-167
readPage(m, f, p) ==
    IF HashHit(m.hash, f, p)
    THEN LET id == HashFrame(m.hash, f, p)
         IN [m |-> PinHit(m, id), res |-> "ok", frame |-> id, hit |-> TRUE]
    ELSE IF <<f, p>> \notin m.pages
    THEN [m |-> m, res |-> "InvalidPage", frame |-> 0, hit |-> FALSE]
    ELSE LET pageTemp == [pn |-> p, data |-> m.data[<<f, p>>]]
             a == allocBuf([m EXCEPT !.log = Append(@, Ev("read", f, p, 0, pageTemp.data))])
         IN IF a.res # "ok"
            THEN [m |-> a.m, res |-> a.res, frame |-> 0, hit |-> FALSE]
            ELSE LET l == Load(a.m, f, p, a.frame, pageTemp)
                 IN [m |-> l.m, res |-> l.res, frame |-> a.frame, hit |-> FALSE]

\* the pin count left as it was
UnpinKeep(d, dirty) == [d EXCEPT !.dirty = IF dirty THEN TRUE ELSE @]

\* the dirty bit assigned from the argument
UnpinAssign(d, dirty) == [d EXCEPT !.pinCnt = @ - 1, !.dirty = dirty]

\* buffer.cpp 192-195
Unpin(d, dirty) ==
    [d EXCEPT !.pinCnt = @ - 1, !.dirty = IF dirty THEN TRUE ELSE @]

\* the HashNotFoundException of the lookup let through
unPinPageThrow(m, f, p, dirty) ==
    IF ~HashHit(m.hash, f, p)
    THEN [m |-> m, res |-> "HashNotFound", frame |-> 0, hit |-> FALSE]
    ELSE LET frameId == HashFrame(m.hash, f, p)
         IN IF m.desc[frameId].pinCnt = 0
            THEN [m |-> m, res |-> "PageNotPinned", frame |-> frameId, hit |-> TRUE]
            ELSE [m |-> [m EXCEPT !.desc[frameId] = Unpin(@, dirty)],
                  res |-> "ok", frame |-> frameId, hit |-> TRUE]

\* buffer.cpp 178-196
unPinPage(m, f, p, dirty) ==
    IF ~HashHit(m.hash, f, p)
    THEN [m |-> m, res |-> "ok", frame |-> 0, hit |-> FALSE]
    ELSE LET frameId == HashFrame(m.hash, f, p)
         IN IF m.desc[frameId].pinCnt = 0
            THEN [m |-> m, res |-> "PageNotPinned", frame |-> frameId, hit |-> TRUE]
            ELSE [m |-> [m EXCEPT !.desc[frameId] = Unpin(@, dirty)],
                  res |-> "ok", frame |-> frameId, hit |-> TRUE]

\* the write back of a dirty frame left out
FlushDirtyNever(m, k) == m

\* buffer.cpp 218-221
FlushDirty(m, k) ==
    IF m.desc[k].dirty
    THEN [writePage(m, m.desc[k].file, k) EXCEPT !.desc[k].dirty = FALSE]
    ELSE m

RECURSIVE flushFrom(_, _, _)
\* buffer.cpp 209-226: the loop over the frames, from frame k on
flushFrom(m, f, k) ==
    IF k = NumBufs THEN [m |-> m, res |-> "ok", frame |-> 0, hit |-> FALSE]
    ELSE IF m.desc[k].file # f THEN flushFrom(m, f, k + 1)
    ELSE IF m.desc[k].pinCnt > 0 THEN [m |-> m, res |-> "PagePinned", frame |-> k, hit |-> FALSE]
    ELSE IF ~m.desc[k].valid THEN [m |-> m, res |-> "BadBuffer", frame |-> k, hit |-> FALSE]
    ELSE LET m1 == FlushDirty(m, k)
             p == m1.desc[k].pageNo
         IN IF ~HashHit(m1.hash, f, p)
            THEN [m |-> m1, res |-> "HashNotFound", frame |-> k, hit |-> FALSE]
            ELSE flushFrom([m1 EXCEPT
                              !.hash = HashRemove(@, f, p),
                              !.desc[k] = Clear(@),
                              !.log = @ \o <<Ev("remove", f, p, k, 0),
                                             Ev("clear", f, p, k, 0)>>],
                           f, k + 1)

\* the pins of the file checked before any frame is touched
flushFileAtomic(m, f) ==
    LET pinned == {i \in Frames : m.desc[i].file = f /\ m.desc[i].pinCnt > 0}
    IN IF pinned # {}
       THEN [m |-> m, res |-> "PagePinned",
             frame |-> CHOOSE i \in pinned : \A j \in pinned : i <= j,
             hit |-> FALSE]
       ELSE flushFrom(m, f, 0)

\* buffer.cpp 206-227
flushFile(m, f) == flushFrom(m, f, 0)

\* File::allocatePage: a page number the file does not hold, empty content
allocatePage(m, f, p) ==
    [m EXCEPT !.pages = @ \cup {<<f, p>>},
              !.data[<<f, p>>] = 0,
              !.log = Append(@, Ev("allocate", f, p, 0, 0))]

\* the frame obtained first, the page allocated in the file after it
allocPageFrameFirst(m, f, newPageId) ==
    LET a == allocBuf(m)
    IN IF a.res # "ok"
       THEN [m |-> a.m, res |-> a.res, frame |-> 0, hit |-> FALSE,
             pageNo |-> InvalidPageNo]
       ELSE LET m1 == allocatePage(a.m, f, newPageId)
                pg == [pn |-> newPageId, data |-> m1.data[<<f, newPageId>>]]
                l == Load(m1, f, newPageId, a.frame, pg)
            IN [m |-> l.m, res |-> l.res, frame |-> a.frame, hit |-> FALSE,
                pageNo |-> IF l.res = "ok" THEN newPageId ELSE InvalidPageNo]

\* buffer.cpp 237-251; newPageId is the number File::allocatePage chose
allocPage(m, f, newPageId) ==
    LET a == allocBuf(allocatePage(m, f, newPageId))
    IN IF a.res # "ok"
       THEN [m |-> a.m, res |-> a.res, frame |-> 0, hit |-> FALSE,
             pageNo |-> InvalidPageNo]
       ELSE LET pg == [pn |-> newPageId, data |-> a.m.data[<<f, newPageId>>]]
                l == Load(a.m, f, newPageId, a.frame, pg)
            IN [m |-> l.m, res |-> l.res, frame |-> a.frame, hit |-> FALSE,
                pageNo |-> IF l.res = "ok" THEN newPageId ELSE InvalidPageNo]

\* the descriptor cleared and the hash table entry left behind
DropKeepEntry(m, f, p) ==
    IF HashHit(m.hash, f, p)
    THEN [m EXCEPT !.desc[HashFrame(m.hash, f, p)] = Clear(@)]
    ELSE m

\* the descriptor marked not valid instead of cleared
DropInvalidate(m, f, p) ==
    IF HashHit(m.hash, f, p)
    THEN LET frameId == HashFrame(m.hash, f, p)
         IN [m EXCEPT !.desc[frameId].valid = FALSE,
                      !.hash = HashRemove(@, f, p),
                      !.log = @ \o <<Ev("clear", f, p, frameId, m.desc[frameId].pinCnt),
                                     Ev("remove", f, p, frameId, 0)>>]
    ELSE m

\* the hash table entry removed and the descriptor left as it was
DropKeepDesc(m, f, p) ==
    IF HashHit(m.hash, f, p)
    THEN LET frameId == HashFrame(m.hash, f, p)
         IN [m EXCEPT !.hash = HashRemove(@, f, p),
                      !.log = Append(@, Ev("remove", f, p, frameId, 0))]
    ELSE m

\* a page in use is left in its frame
DropIfUnpinned(m, f, p) ==
    IF HashHit(m.hash, f, p) /\ m.desc[HashFrame(m.hash, f, p)].pinCnt = 0
    THEN LET frameId == HashFrame(m.hash, f, p)
         IN [m EXCEPT !.desc[frameId] = Clear(@),
                      !.hash = HashRemove(@, f, p),
                      !.log = @ \o <<Ev("clear", f, p, frameId, 0),
                                     Ev("remove", f, p, frameId, 0)>>]
    ELSE m

\* buffer.cpp 265-267: a resident page is cleared, whatever its pin count
\* (the clear event carries the pin count the descriptor had)
Drop(m, f, p) ==
    IF HashHit(m.hash, f, p)
    THEN LET frameId == HashFrame(m.hash, f, p)
         IN [m EXCEPT !.desc[frameId] = Clear(@),
                      !.hash = HashRemove(@, f, p),
                      !.log = @ \o <<Ev("clear", f, p, frameId, m.desc[frameId].pinCnt),
                                     Ev("remove", f, p, frameId, 0)>>]
    ELSE m

\* File::deletePage
deletePage(m, f, p) ==
    IF <<f, p>> \in m.pages
    THEN [m |-> [m EXCEPT !.pages = @ \ {<<f, p>>},
                          !.data[<<f, p>>] = 0,
                          !.log = Append(@, Ev("delete", f, p, 0, 0))],
          res |-> "ok", frame |-> 0, hit |-> FALSE]
    ELSE [m |-> [m EXCEPT !.log = Append(@, Ev("delete", f, p, 0, 0))],
          res |-> "InvalidPage", frame |-> 0, hit |-> FALSE]

\* buffer.cpp 259-273
disposePage(m, f, p) == deletePage(Drop(m, f, p), f, p)

\* the dirty bit dropped and the frame not written
WriteBackNever(m, i) == [m EXCEPT !.desc[i].dirty = FALSE]

\* buffer.cpp 55-58: a dirty frame is written to its file
WriteBack(m, i) ==
    IF m.desc[i].dirty
    THEN [writePage(m, m.desc[i].file, i) EXCEPT !.desc[i].dirty = FALSE]
    ELSE m

RECURSIVE destroyFrom(_, _)
\* buffer.cpp 54-59: the loop over the frames, from frame i on; writePage
\* through the NULL file of a descriptor ends the program
destroyFrom(m, i) ==
    IF i = NumBufs THEN [m |-> m, res |-> "ok", frame |-> 0, hit |-> FALSE]
    ELSE IF m.desc[i].dirty /\ m.desc[i].file = NullFile
    THEN [m |-> m, res |-> "NullFile", frame |-> i, hit |-> FALSE]
    ELSE destroyFrom(WriteBack(m, i), i + 1)

\* buffer.cpp 53-63: ~BufMgr
destroy(m) == destroyFrom(m, 0)

\* ------------------------------------------------------- state and actions
Init ==
    /\ bufDescTable = [i \in Frames |-> ClearedDesc]
    /\ bufPool = [i \in Frames |-> EmptyPage]
    /\ hashTable = {}
    /\ clockHand = NumBufs - 1
    /\ filePages = Pages
    /\ fileData = [q \in Pages |-> 0]
    /\ last = [op |-> "init", file |-> NullFile, pageNo |-> InvalidPageNo,
               res |-> "ok", owed |-> FALSE]
    /\ log = <<>>
    /\ pins = [q \in Pages |-> 0]
    /\ mark = [q \in Pages |-> FALSE]
    /\ expect = [q \in Pages |-> {}]
    /\ released = [q \in Pages |-> {}]

\* the engine and the files take the values the handler left
Commit(m) ==
    /\ bufDescTable' = m.desc
    /\ bufPool' = m.pool
    /\ hashTable' = m.hash
    /\ clockHand' = m.hand
    /\ filePages' = m.pages
    /\ fileData' = m.data
    /\ log' = m.log

\* owed: the call loaded a page whose content was owed to its next reader
Called(op, f, p, r) ==
    last' = [op |-> op, file |-> f, pageNo |-> p, res |-> r.res,
             owed |-> /\ op = "readPage"
                      /\ r.res = "ok"
                      /\ ~r.hit
                      /\ expect[<<f, p>>] # {}]

\* pages whose descriptor the calls cleared
Cleared(lg) == {<<lg[i].file, lg[i].pageNo>> : i \in {j \in DOMAIN lg : lg[j].ev = "clear"}}

\* frames the clock algorithm took from a page
Evicted(lg) ==
    {lg[i].frame : i \in {j \in DOMAIN lg : lg[j].ev = "victim" /\ lg[j].file # NullFile}}

\* a page that leaves its frame: when the clock evicts a page that was
\* released dirty, the content the clients left in the frame is owed to the
\* next reader of the page
Leave(gone, evicted) ==
    /\ mark' = [q \in Pages |-> IF q \in gone THEN FALSE ELSE mark[q]]
    /\ expect' = [q \in Pages |->
                    IF \E i \in evicted :
                          /\ q = <<bufDescTable[i].file, bufDescTable[i].pageNo>>
                          /\ mark[q]
                    THEN {bufPool[i].data : i \in {j \in evicted :
                             q = <<bufDescTable[j].file, bufDescTable[j].pageNo>>}}
                    ELSE IF q \in gone THEN {} ELSE expect[q]]
    /\ released' = [q \in Pages |-> IF q \in gone THEN {} ELSE released[q]]

\* each action binds the outcome r of its handler once
ReadPage(f, p) ==
    \E r \in {readPage(Machine, f, p)} :
    LET q == <<f, p>>
    IN /\ HashHit(hashTable, f, p) => bufDescTable[HashFrame(hashTable, f, p)].pinCnt < MaxPin
       /\ Commit(r.m)
       /\ Called("readPage", f, p, r)
       /\ IF r.res = "ok"
          THEN pins' = [pins EXCEPT ![q] = @ + 1]
          ELSE UNCHANGED pins
       /\ IF r.hit THEN UNCHANGED <<mark, expect, released>>
          ELSE Leave(Cleared(r.m.log) \cup (IF r.res = "ok" THEN {q} ELSE {}),
                     Evicted(r.m.log))

UnPinPage(f, p, dirty) ==
    \E r \in {unPinPage(Machine, f, p, dirty)} :
    LET q == <<f, p>>
        done == r.res = "ok" /\ r.hit
    IN /\ Commit(r.m)
       /\ Called("unPinPage", f, p, r)
       /\ pins' = [pins EXCEPT ![q] = IF done /\ @ > 0 THEN @ - 1 ELSE @]
       /\ mark' = [mark EXCEPT ![q] = IF done /\ dirty THEN TRUE ELSE @]
       /\ released' = [released EXCEPT
                         ![q] = IF done /\ dirty THEN {bufPool[r.frame].data} ELSE @]
       /\ UNCHANGED expect

FlushFile(f) ==
    \E r \in {flushFile(Machine, f)} :
       /\ Commit(r.m)
       /\ Called("flushFile", f, InvalidPageNo, r)
       /\ Leave(Cleared(r.m.log), {})
       /\ UNCHANGED pins

AllocPage(f, newPageId) ==
    /\ <<f, newPageId>> \notin filePages
    /\ \E r \in {allocPage(Machine, f, newPageId)} :
       LET q == <<f, newPageId>>
       IN /\ Commit(r.m)
          /\ Called("allocPage", f, r.pageNo, r)
          /\ IF r.res = "ok"
             THEN pins' = [pins EXCEPT ![q] = @ + 1]
             ELSE UNCHANGED pins
          /\ Leave(Cleared(r.m.log) \cup (IF r.res = "ok" THEN {q} ELSE {}),
                   Evicted(r.m.log))

DisposePage(f, p) ==
    \E r \in {disposePage(Machine, f, p)} :
    LET q == <<f, p>>
    IN /\ Commit(r.m)
       /\ Called("disposePage", f, p, r)
       /\ pins' = [pins EXCEPT ![q] = 0]
       /\ Leave({q}, {})

\* the client changes the content of a page it holds a handle for
WritePage(f, p, x) ==
    LET q == <<f, p>>
        id == HashFrame(hashTable, f, p)
    IN /\ pins[q] > 0
       /\ HashHit(hashTable, f, p)
       /\ bufPool' = [bufPool EXCEPT ![id].data = x]
       /\ last' = [op |-> "write", file |-> f, pageNo |-> p, res |-> "ok",
                   owed |-> FALSE]
       /\ log' = <<>>
       /\ UNCHANGED <<bufDescTable, hashTable, clockHand, filePages, fileData,
                      pins, mark, expect, released>>

\* ~BufMgr: the engine is destroyed
Destroy ==
    \E r \in {destroy(Machine)} :
       /\ Commit(r.m)
       /\ Called("~BufMgr", NullFile, InvalidPageNo, r)
       /\ UNCHANGED <<pins, mark, expect, released>>

\* every operation of the engine; the content of the pages stays as created
Next ==
    \/ \E q \in Pages : ReadPage(q[1], q[2])
    \/ \E q \in Pages, d \in BOOLEAN : UnPinPage(q[1], q[2], d)
    \/ \E f \in Files : FlushFile(f)
    \/ \E q \in Pages : AllocPage(q[1], q[2])
    \/ \E q \in Pages : DisposePage(q[1], q[2])

Spec == Init /\ [][Next]_vars

\* fetches and releases alone
NextPin ==
    \/ \E q \in Pages : ReadPage(q[1], q[2])
    \/ \E q \in Pages, d \in BOOLEAN : UnPinPage(q[1], q[2], d)

SpecPin == Init /\ [][NextPin]_vars

\* clients that change the content of page 1 of file 1 while they hold it;
\* no page is created or deleted
NextData ==
    \/ \E q \in Pages : ReadPage(q[1], q[2])
    \/ \E q \in Pages, d \in BOOLEAN : UnPinPage(q[1], q[2], d)
    \/ \E f \in Files : FlushFile(f)
    \/ \E x \in Data : WritePage(1, 1, x)

SpecData == Init /\ [][NextData]_vars

\* a client gives up the last handle of a page with dirty = false only when
\* the frame holds what was last released dirty or, failing that, what the
\* file holds
Honest(q, dirty) ==
    (~dirty /\ pins[q] = 1 /\ HashHit(hashTable, q[1], q[2])) =>
       LET x == bufPool[HashFrame(hashTable, q[1], q[2])].data
       IN IF released[q] # {} THEN x \in released[q] ELSE x = fileData[q]

\* an engine that was destroyed takes no more calls
Alive == last.op # "~BufMgr"

\* the life of an engine, up to its destruction: clients that mark what they
\* change
NextDown ==
    \/ Alive /\ \E q \in Pages : ReadPage(q[1], q[2])
    \/ Alive /\ \E q \in Pages, d \in BOOLEAN : Honest(q, d) /\ UnPinPage(q[1], q[2], d)
    \/ Alive /\ \E f \in Files : FlushFile(f)
    \/ Alive /\ \E q \in Pages : AllocPage(q[1], q[2])
    \/ Alive /\ \E q \in Pages : DisposePage(q[1], q[2])
    \/ Alive /\ \E x \in Data : WritePage(1, 1, x)
    \/ Alive /\ Destroy

SpecDown == Init /\ [][NextDown]_vars

\* ------------------------------------------------------------ properties
Resident(q) == HashHit(hashTable, q[1], q[2])

FrameOf(q) == HashFrame(hashTable, q[1], q[2])

PinOf(q) == IF Resident(q) THEN bufDescTable[FrameOf(q)].pinCnt ELSE 0

Holds(i, q) ==
    /\ bufDescTable[i].valid
    /\ bufDescTable[i].file = q[1]
    /\ bufDescTable[i].pageNo = q[2]

\* C1: every frame allocBuf hands out, free or taken from a page, had pin
\* count 0 when the clock chose it.
C1_NoPinnedVictim ==
    \A i \in DOMAIN log : log[i].ev = "victim" => log[i].val = 0

\* a page was evicted while another frame was pinned
C1_Witness ==
    \E i \in DOMAIN log :
        /\ log[i].ev = "victim"
        /\ log[i].file # NullFile
        /\ \E fr \in Frames : fr # log[i].frame /\ bufDescTable[fr].pinCnt > 0

\* C2: after every operation, failed ones included, no two frames hold the
\* same (file, page), a frame is valid iff the hash table maps its (file,
\* page) to it, and the hash table has no other entry.
C2_IndexAgrees ==
    /\ \A i, j \in Frames :
          /\ bufDescTable[i].valid /\ bufDescTable[j].valid
          /\ bufDescTable[i].file = bufDescTable[j].file
          /\ bufDescTable[i].pageNo = bufDescTable[j].pageNo
          => i = j
    /\ \A i \in Frames :
          bufDescTable[i].valid <=>
            HashEntry(bufDescTable[i].file, bufDescTable[i].pageNo, i) \in hashTable
    /\ \A e \in hashTable : Holds(e.frameNo, <<e.file, e.pageNo>>)

\* flushFile gave up half way: one frame cleared, another still mapped
C2_Witness ==
    /\ last.op = "flushFile"
    /\ last.res = "PagePinned"
    /\ \E i \in DOMAIN log : log[i].ev = "clear"
    /\ hashTable # {}

AllPinned == \A i \in Frames : bufDescTable[i].pinCnt > 0

\* C3 as claimed: a page with an outstanding handle stays in its frame,
\* valid and mapped to the same (file, page), whatever operation comes next.
C3_HandleStable ==
    [][\A q \in Pages :
          (pins[q] > 0 /\ Resident(q)) =>
             /\ Resident(q)'
             /\ FrameOf(q)' = FrameOf(q)
             /\ Holds(FrameOf(q), q)']_vars

\* C4: after every readPage and unPinPage the pin count of each page is the
\* number of fetches less the number of releases, each readPage adds one
\* pin, and unPinPage of a resident page with pin count 0 ends with
\* PageNotPinned and leaves every descriptor as it was.
C4_PinDiscipline ==
    [][\A q \in Pages :
          /\ PinOf(q)' = pins'[q]
          /\ (ReadPage(q[1], q[2]) /\ last'.res = "ok") => PinOf(q)' = PinOf(q) + 1
          /\ \A d \in BOOLEAN :
                (UnPinPage(q[1], q[2], d) /\ Resident(q) /\ PinOf(q) = 0) =>
                   /\ last'.res = "PageNotPinned"
                   /\ bufDescTable' = bufDescTable]_vars

\* a release too many was refused while another page was pinned twice
C4_Witness ==
    /\ last.op = "unPinPage"
    /\ last.res = "PageNotPinned"
    /\ Resident(<<last.file, last.pageNo>>)
    /\ \E q \in Pages : pins[q] = MaxPin /\ PinOf(q) = MaxPin

\* C5: a call that needs a frame ends with BufferExceeded iff every frame
\* is pinned when it is made.
C5_ExhaustedIffAllPinned ==
    [][\A q \in Pages :
          /\ (ReadPage(q[1], q[2]) /\ ~Resident(q) /\ q \in filePages) =>
                (last'.res = "BufferExceeded" <=> AllPinned)
          /\ AllocPage(q[1], q[2]) =>
                (last'.res = "BufferExceeded" <=> AllPinned)
          /\ (allocBuf(Machine).res = "BufferExceeded" <=> AllPinned)]_vars

\* readPage of a page not in the pool failed with every frame pinned
C5_Witness ==
    /\ last.op = "readPage"
    /\ last.res = "BufferExceeded"
    /\ AllPinned
    /\ ~Resident(<<last.file, last.pageNo>>)

\* the failed readPage of q, a release of q2, readPage of q again
Retry(q, q2, d, freed) ==
    LET r1 == readPage(Machine, q[1], q[2])
        r2 == unPinPage(r1.m, q2[1], q2[2], d)
    IN /\ r1.res = "BufferExceeded"
       /\ (/\ r2.res = "ok"
           /\ r2.hit
           /\ freed => r2.m.desc[r2.frame].pinCnt = 0)
          => readPage(r2.m, q[1], q[2]).res = "ok"

\* C6 as claimed: with every frame pinned readPage of a page not in the
\* pool fails with BufferExceeded, and after any one successful unPinPage
\* of a resident page the same readPage succeeds.
C6_AnyRelease ==
    \A q \in Pages :
        (AllPinned /\ ~Resident(q) /\ q \in filePages) =>
            \A q2 \in Pages, d \in BOOLEAN : Retry(q, q2, d, FALSE)

\* C6 amended: ... after a successful unPinPage that brings the pin count
\* of its frame to 0 the same readPage succeeds.
C6_ReleaseToZero ==
    \A q \in Pages :
        (AllPinned /\ ~Resident(q) /\ q \in filePages) =>
            \A q2 \in Pages, d \in BOOLEAN : Retry(q, q2, d, TRUE)

\* readPage failed with one frame pinned once and another pinned twice
C6_Witness ==
    /\ last.op = "readPage"
    /\ last.res = "BufferExceeded"
    /\ \E i \in Frames : bufDescTable[i].pinCnt = 1
    /\ \E i \in Frames : bufDescTable[i].pinCnt > 1

Writes(lg) == {j \in DOMAIN lg : lg[j].ev = "write"}

\* C7: when allocBuf evicts a page, a dirty one is written to its file once,
\* with the content of the frame, before the hash entry is removed and the
\* descriptor cleared and set again; a clean one is not written; the frame
\* is not dirty afterwards.
C7_WriteBackOnEviction ==
    [][\A i \in DOMAIN log' :
          (log'[i].ev = "victim" /\ log'[i].file # NullFile) =>
             LET fr == log'[i].frame
                 d == bufDescTable[fr]
             IN /\ d.valid
                /\ \E k \in DOMAIN log' : log'[k] = Ev("remove", d.file, d.pageNo, fr, 0)
                /\ \E k \in DOMAIN log' : log'[k] = Ev("clear", d.file, d.pageNo, fr, 0)
                /\ ~bufDescTable'[fr].dirty
                /\ IF d.dirty
                   THEN /\ Cardinality(Writes(log')) = 1
                        /\ \A j \in Writes(log') :
                              /\ log'[j] = Ev("write", d.file, d.pageNo, fr, bufPool[fr].data)
                              /\ \A k \in DOMAIN log' :
                                    log'[k].ev \in {"remove", "clear", "set"} => j < k
                        /\ fileData'[<<d.file, d.pageNo>>] = bufPool[fr].data
                   ELSE Writes(log') = {}]_vars

\* a page whose content a client changed was evicted and written back
C7_Witness ==
    /\ last.op = "readPage"
    /\ last.res = "ok"
    /\ \E i \in DOMAIN log : log[i].ev = "victim" /\ log[i].file # NullFile
    /\ \E j \in DOMAIN log : log[j].ev = "write" /\ log[j].val = 1

\* C8: readPage of a page that the clock evicted after a client changed its
\* content and released it dirty returns the content the client left.
C8_RoundTrip ==
    [][\A q \in Pages :
          (ReadPage(q[1], q[2]) /\ expect[q] # {} /\ last'.res = "ok") =>
             /\ Resident(q)'
             /\ bufPool'[FrameOf(q)'].pn = q[2]
             /\ bufPool'[FrameOf(q)'].data \in expect[q]]_vars

\* a page came back with the content written before its eviction
C8_Witness ==
    /\ last.op = "readPage"
    /\ last.owed
    /\ Resident(<<last.file, last.pageNo>>)
    /\ bufPool[FrameOf(<<last.file, last.pageNo>>)].data = 1

\* C9: flushFile ends with PagePinned when a frame of the file is pinned;
\* otherwise it succeeds, no descriptor and no hash entry names the file
\* afterwards, and each dirty frame of the file was written once, with its
\* content.
C9_FlushFile ==
    [][\A f \in Files :
          FlushFile(f) =>
             IF \E i \in Frames : bufDescTable[i].file = f /\ bufDescTable[i].pinCnt > 0
             THEN last'.res = "PagePinned"
             ELSE /\ last'.res = "ok"
                  /\ \A i \in Frames : bufDescTable'[i].file # f
                  /\ \A e \in hashTable' : e.file # f
                  /\ \A i \in Frames :
                        (bufDescTable[i].file = f /\ bufDescTable[i].dirty) =>
                           /\ Cardinality({j \in Writes(log') : log'[j].frame = i}) = 1
                           /\ \E j \in Writes(log') :
                                 log'[j] = Ev("write", f, bufDescTable[i].pageNo, i,
                                              bufPool[i].data)
                           /\ fileData'[<<f, bufDescTable[i].pageNo>>] = bufPool[i].data]_vars

\* a file was flushed and changed content went to disk
C9_Witness ==
    /\ last.op = "flushFile"
    /\ last.res = "ok"
    /\ \E j \in DOMAIN log : log[j].ev = "write" /\ log[j].val = 1

\* C10: when flushFile ends with PagePinned at frame k, the lowest pinned
\* frame of the file, the frames of the file below k are written back if
\* dirty, out of the hash table and cleared, and frame k and the frames above
\* it are as they were.
C10_FlushPartial ==
    [][\A f \in Files :
          (FlushFile(f) /\ last'.res = "PagePinned") =>
             LET pinned == {i \in Frames :
                              bufDescTable[i].file = f /\ bufDescTable[i].pinCnt > 0}
                 k == CHOOSE i \in pinned : \A j \in pinned : i <= j
             IN /\ pinned # {}
                /\ flushFile(Machine, f).frame = k
                /\ \A i \in Frames :
                      IF i < k /\ bufDescTable[i].file = f
                      THEN /\ bufDescTable'[i] = ClearedDesc
                           /\ ~HashHit(hashTable', f, bufDescTable[i].pageNo)
                           /\ bufDescTable[i].dirty =>
                                \E j \in Writes(log') :
                                   log'[j] = Ev("write", f, bufDescTable[i].pageNo, i,
                                                bufPool[i].data)
                      ELSE /\ bufDescTable'[i] = bufDescTable[i]
                           /\ bufPool'[i] = bufPool[i]
                           /\ bufDescTable[i].valid =>
                                HashEntry(bufDescTable[i].file, bufDescTable[i].pageNo, i)
                                   \in hashTable']_vars

\* flushFile wrote back and cleared a frame, then met a pinned one
C10_Witness ==
    /\ last.op = "flushFile"
    /\ last.res = "PagePinned"
    /\ \E i \in DOMAIN log : log[i].ev = "clear"
    /\ \E j \in DOMAIN log : log[j].ev = "write"

\* the turns of the clock the last call of allocBuf took
Turns(lg) == {lg[i].val : i \in {j \in DOMAIN lg : lg[j].ev = "done"}}

\* C11: every call of allocBuf ends after at most 2 * NumBufs advances of
\* the clock hand; with a frame that is not pinned it hands out a frame, and
\* with every frame pinned it ends with BufferExceeded after exactly NumBufs
\* advances.
C11_BoundedSweep ==
    [][\A n \in Turns(log') :
          /\ n <= 2 * NumBufs
          /\ IF AllPinned
             THEN last'.res = "BufferExceeded" /\ n = NumBufs
             ELSE /\ last'.res = "ok"
                  /\ \E i \in DOMAIN log' : log'[i].ev = "victim"]_vars

\* allocBuf found its frame at the end of the second sweep
C11_Witness ==
    /\ last.res = "ok"
    /\ 2 * NumBufs \in Turns(log)
    /\ \E i \in Frames : bufDescTable[i].pinCnt > 0

C14_StickyDirty ==
    [][/\ \A i \in Frames :
             LET d == bufDescTable[i]
                 written == \E j \in Writes(log') :
                               log'[j] = Ev("write", d.file, d.pageNo, i, bufPool[i].data)
             IN /\ (d.dirty /\ ~bufDescTable'[i].dirty) =>
                      \/ /\ written
                         /\ \E k \in DOMAIN log' :
                               log'[k] = Ev("clear", d.file, d.pageNo, i, 0)
                      \/ /\ written
                         /\ last'.op = "~BufMgr"
                      \/ /\ last'.op = "disposePage"
                         /\ <<last'.file, last'.pageNo>> = <<d.file, d.pageNo>>
                         /\ bufDescTable'[i] = ClearedDesc
                /\ bufDescTable'[i].dirty =>
                      /\ bufDescTable'[i].valid
                      /\ mark'[<<bufDescTable'[i].file, bufDescTable'[i].pageNo>>]
       /\ \A q \in Pages :
             (/\ Resident(q)
              /\ bufDescTable[FrameOf(q)].dirty
              /\ ReadPage(q[1], q[2]) \/ \E b \in BOOLEAN : UnPinPage(q[1], q[2], b)) =>
                \E fr \in {FrameOf(q)} :
                   /\ Holds(fr, q)'
                   /\ bufDescTable'[fr].dirty]_vars

\* a page released dirty was changed by another holder and then released
\* with dirty = false: its frame is still dirty
C14_Witness ==
    /\ last.op = "unPinPage"
    /\ last.res = "ok"
    /\ Resident(<<last.file, last.pageNo>>)
    /\ bufDescTable[FrameOf(<<last.file, last.pageNo>>)].dirty
    /\ bufPool[FrameOf(<<last.file, last.pageNo>>)].data \notin released[<<last.file, last.pageNo>>]

Deletes(lg) == {j \in DOMAIN lg : lg[j].ev = "delete"}

\* C15: after disposePage of a resident page its frame is cleared and the
\* hash table has no entry for the page, pinned or not; resident or not,
\* File::deletePage is called exactly once, for that page.
C15_DisposeAuthoritative ==
    [][\A q \in Pages :
          DisposePage(q[1], q[2]) =>
             /\ Resident(q) =>
                   /\ bufDescTable'[FrameOf(q)] = ClearedDesc
                   /\ \A i \in Frames : ~Holds(i, q)'
             /\ ~HashHit(hashTable', q[1], q[2])
             /\ Cardinality(Deletes(log')) = 1
             /\ \A j \in Deletes(log') : log'[j] = Ev("delete", q[1], q[2], 0, 0)]_vars

\* a page was disposed of while it was pinned
C15_Witness ==
    /\ last.op = "disposePage"
    /\ \E i \in DOMAIN log : log[i].ev = "clear" /\ log[i].val > 0
    /\ \A i \in DOMAIN log :
          log[i].ev = "clear" => bufDescTable[log[i].frame] = ClearedDesc

\* the outcomes of the engine itself
CoreResults == {"ok", "BufferExceeded", "PageNotPinned", "PagePinned", "BadBuffer"}

At(k) == (clockHand + k) % NumBufs

\* the frame met at the k-th advance can be handed out: it is not valid, or
\* it is not pinned and its reference bit is clear, as found or cleared one
\* sweep earlier
Eligible(k) ==
    LET d == bufDescTable[At(k)]
    IN \/ ~d.valid
       \/ d.pinCnt = 0 /\ (~d.refbit \/ k > NumBufs)

\* C17: a successful call of allocBuf hands out the first frame, in circular
\* order from the frame after the clock hand, that is not valid or is valid,
\* unpinned and with reference bit clear at the visit; the clock hand is left
\* on it; of the other frames those visited lose their reference bit and
\* nothing else, and those not visited are as they were.
C17_ClockOrder ==
    [][\A q \in Pages :
          (/\ \/ ReadPage(q[1], q[2]) /\ ~Resident(q)
              \/ AllocPage(q[1], q[2])
           /\ last'.res = "ok") =>
             /\ \E k \in 1 .. 2 * NumBufs : Eligible(k)
             /\ LET first == CHOOSE k \in 1 .. 2 * NumBufs :
                                /\ Eligible(k)
                                /\ \A j \in 1 .. (k - 1) : ~Eligible(j)
                    visited == {At(j) : j \in 1 .. (first - 1)}
                IN \E fr \in {At(first)} :
                      /\ clockHand' = fr
                      /\ Holds(fr, q)'
                      /\ Turns(log') = {first}
                      /\ \A i \in DOMAIN log' :
                            log'[i].ev = "victim" => log'[i].frame = fr
                      /\ \A i \in Frames \ {fr} :
                            bufDescTable'[i] =
                               [bufDescTable[i] EXCEPT
                                  !.refbit = IF i \in visited THEN FALSE ELSE @]]_vars

\* a page was evicted in the second sweep, after the clock passed a pinned
\* frame twice and cleared its reference bit
C17_Witness ==
    /\ last.op = "readPage"
    /\ last.res = "ok"
    /\ \E i \in DOMAIN log : log[i].ev = "victim" /\ log[i].file # NullFile
    /\ \E n \in Turns(log) : n > NumBufs
    /\ \E i \in Frames :
          /\ i # clockHand
          /\ bufDescTable[i].pinCnt > 0
          /\ ~bufDescTable[i].refbit

\* C18: readPage of a page that is not in the pool, when it ends with
\* BufferExceeded, leaves the hash table, the frames, the clock hand, the files
\* and, of every descriptor, all but the reference bit as they were; no
\* reference bit is set that was clear.
C18_FailedFetch ==
    [][\A q \in Pages :
          (ReadPage(q[1], q[2]) /\ ~Resident(q) /\ last'.res = "BufferExceeded") =>
             /\ UNCHANGED <<hashTable, bufPool, clockHand, filePages, fileData>>
             /\ \A i \in Frames :
                   /\ [bufDescTable'[i] EXCEPT !.refbit = FALSE]
                         = [bufDescTable[i] EXCEPT !.refbit = FALSE]
                   /\ bufDescTable'[i].refbit => bufDescTable[i].refbit
             /\ \A i \in DOMAIN log' : log'[i].ev \in {"read", "done"}]_vars

\* readPage failed with the clock hand away from where it started and a
\* dirty frame in the pool; the sweep left no reference bit set
C18_Witness ==
    /\ last.op = "readPage"
    /\ last.res = "BufferExceeded"
    /\ clockHand # NumBufs - 1
    /\ \E i \in Frames : bufDescTable[i].dirty
    /\ \A i \in Frames : bufDescTable[i].valid /\ ~bufDescTable[i].refbit

\* C19: allocPage has the file allocate the page before it asks for a frame;
\* when it ends with BufferExceeded the file holds the new page, no frame and
\* no hash table entry holds it, and the caller gets no page number.
C19_AllocLeak ==
    [][\A q \in Pages :
          AllocPage(q[1], q[2]) =>
             /\ log'[1] = Ev("allocate", q[1], q[2], 0, 0)
             /\ \A i \in DOMAIN log' : log'[i].ev \in {"victim", "done"} => 1 < i
             /\ last'.res = "BufferExceeded" =>
                   /\ q \notin filePages
                   /\ filePages' = filePages \cup {q}
                   /\ ~Resident(q)'
                   /\ \A i \in Frames : ~Holds(i, q)'
                   /\ last'.pageNo = InvalidPageNo
                   /\ UNCHANGED <<hashTable, bufPool>>]_vars

\* allocPage failed for want of a frame and left a page in the file that no
\* frame holds
C19_Witness ==
    /\ last.op = "allocPage"
    /\ last.res = "BufferExceeded"
    /\ \E i \in DOMAIN log :
          /\ log[i].ev = "allocate"
          /\ <<log[i].file, log[i].pageNo>> \in filePages
          /\ ~Resident(<<log[i].file, log[i].pageNo>>)

\* C20: a descriptor that is not valid has no file, pin count 0 and the dirty
\* and reference bits clear; so a descriptor that names a file is valid, and
\* flushFile of a file never ends with BadBuffer.
C20_InvalidIsCleared ==
    /\ \A i \in Frames :
          LET d == bufDescTable[i]
          IN /\ ~d.valid =>
                   /\ d.file = NullFile
                   /\ d.pinCnt = 0
                   /\ ~d.dirty
                   /\ ~d.refbit
             /\ d.file # NullFile => d.valid
    /\ last.res # "BadBuffer"
    /\ \A f \in Files : flushFile(Machine, f).res # "BadBuffer"

\* flushFile of a file went through and cleared a frame, in a state where
\* flushFile of the NULL file would meet a descriptor that is not valid
C20_Witness ==
    /\ last.op = "flushFile"
    /\ last.res = "ok"
    /\ \E i \in DOMAIN log : log[i].ev = "clear"
    /\ \E i \in Frames : bufDescTable[i].valid
    /\ flushFile(Machine, NullFile).res = "BadBuffer"

====
